---- MODULE Spec2Model ----
(***************************************************************************)
(* Model of the multi-provider tool orchestration layer of                 *)
(* src/mcp-client/client.py: ConnectionManager.list_tools / call_tool and  *)
(* the chat generator that interleaves model calls with tool calls under   *)
(* a turn budget.  Each action is one resumption of the generator: the     *)
(* code between two suspension points (a yield or an await).               *)
(***************************************************************************)
EXTENDS Integers, Sequences, FiniteSets, TLC

(* ------------------------------ bounds -------------------------------- *)

\* largest max_turns argument explored
MaxTurns == 2

\* largest number of tool calls the model requests in one response
MaxCalls == 2

\* largest number of entries of stdio_server_map explored
MaxStdio == 2

\* largest number of entries of sse_server_map explored
MaxSse == 1

\* largest number of calls of ConnectionManager.close on one manager
MaxCloseCalls == 2

\* largest number of tools one provider declares
MaxDecl == 2

\* largest number of entries of a schema's properties map
MaxProps == 2

\* largest length of a schema's required list
MaxReq == 2

\* largest number of times filter_input_schema is applied to one schema
MaxFilterCalls == 2

\* number of turns of a run of main in which the model's request for tools is
\* unrestricted; in later turns it asks for one call of toolA or answers
MainTurns == 1

(* ----------------------------- constants ------------------------------ *)

\* the default of chat's max_turns, which main does not override
DefaultMaxTurns == 10

(* ----------------------- providers and inputs ------------------------- *)

\* keys of the server map, in insertion (= iteration) order
ServerNames == <<"P1", "P2">>

\* tools.tools of each provider session, in declared order
DeclaredTools == [P1 |-> <<"toolA">>, P2 |-> <<"toolB">>]

\* tool names the model may put in a tool call; toolX is declared by nobody
RequestedNames == {"toolA", "toolB", "toolX"}

\* tool_call.function.arguments strings the model may produce
ArgStrings == {"{}", "{\"query\": "}

\* message.content of a response that requests no tool
FinalTexts == {"answer"}

\* result.content[0].text of a tool call that the provider executed
ProviderTexts == {"result"}

\* Python's None
NoneVal == [py |-> "None"]

\* a Python str
Str(t) == [py |-> "str", text |-> t]

\* the empty dict {}
EmptyDict == [py |-> "dict", size |-> 0]

(* --------------------------- pure functions --------------------------- *)

\* json.loads on the argument strings: the parsed value, or JSONDecodeError
JsonLoads(s) ==
    CASE s = "{}" -> [ok |-> TRUE, value |-> EmptyDict]
      [] s = "{\"query\": " -> [ok |-> FALSE, error |-> "JSONDecodeError"]

\* json.dumps(value, indent=2) of a parsed argument value or an observation
JsonDumps(v) ==
    CASE v.py = "None" -> "null"
      [] v.py = "str" -> "\"" \o v.text \o "\""
      [] v.py = "dict" -> "{}"

\* str(observation)
PyStr(v) ==
    CASE v.py = "None" -> "None"
      [] v.py = "str" -> v.text
      [] v.py = "dict" -> "{}"

\* the text print()ed when the tool name is not in the tool map
ToolNotFoundText(tool_name) == "Tool '" \o tool_name \o "' not found."

\* the set of names in a provider's tool list
NamesOf(tools) == {tools[i] : i \in DOMAIN tools}

\* ToolMapUpto storing the tool's name where the server's name belongs
RECURSIVE ToolMapUpto_NameAsOwner(_, _, _)
ToolMapUpto_NameAsOwner(order, decl, k) ==
    IF k = 0 THEN [n \in {} |-> ""]
    ELSE LET prev == ToolMapUpto_NameAsOwner(order, decl, k - 1)
             names == {decl[order[k]][i] : i \in DOMAIN decl[order[k]]}
         IN [n \in (DOMAIN prev) \cup names |-> n]

\* ToolMapUpto keeping the first owner of a name (setdefault, not update)
RECURSIVE ToolMapUpto_FirstWins(_, _, _)
ToolMapUpto_FirstWins(order, decl, k) ==
    IF k = 0 THEN [n \in {} |-> ""]
    ELSE LET prev == ToolMapUpto_FirstWins(order, decl, k - 1)
             s == order[k]
             names == {decl[s][i] : i \in DOMAIN decl[s]}
         IN [n \in (DOMAIN prev) \cup names |->
                IF n \in DOMAIN prev THEN prev[n] ELSE s]

\* tool_map after the first k iterations of the loop of list_tools
RECURSIVE ToolMapUpto(_, _, _)
ToolMapUpto(order, decl, k) ==
    IF k = 0 THEN [n \in {} |-> ""]
    ELSE LET prev == ToolMapUpto(order, decl, k - 1)
             s == order[k]
             names == NamesOf(decl[s])
         IN [n \in (DOMAIN prev) \cup names |->
                IF n \in names THEN s ELSE prev[n]]

\* ConsolidatedUpto leaving out a tool whose name is already in the list
RECURSIVE ConsolidatedUpto_Dedup(_, _, _)
ConsolidatedUpto_Dedup(order, decl, k) ==
    IF k = 0 THEN <<>>
    ELSE LET prev == ConsolidatedUpto_Dedup(order, decl, k - 1)
         IN prev \o SelectSeq(decl[order[k]], LAMBDA n : n \notin NamesOf(prev))

\* ConsolidatedUpto assigning the provider's list instead of extending
ConsolidatedUpto_OnlyLast(order, decl, k) ==
    IF k = 0 THEN <<>> ELSE decl[order[k]]

\* consolidated_tools after the first k iterations of the loop of list_tools
RECURSIVE ConsolidatedUpto(_, _, _)
ConsolidatedUpto(order, decl, k) ==
    IF k = 0 THEN <<>>
    ELSE ConsolidatedUpto(order, decl, k - 1) \o decl[order[k]]

\* ConnectionManager.list_tools: (tool_map, consolidated_tools)
ListTools(order, decl) ==
    [tool_map |-> ToolMapUpto(order, decl, Len(order)),
     tools |-> ConsolidatedUpto(order, decl, Len(order))]

\* tool_map.get(tool_name, "") used for the log lines
ServerForLog(tm, tool_name) ==
    IF tool_name \in DOMAIN tm THEN tm[tool_name] ELSE ""

\* the routing decision of ConnectionManager.call_tool
Route(tm, sess, tool_name) ==
    IF tool_name \notin DOMAIN tm \/ tm[tool_name] = ""
    THEN [to |-> "not_found"]
    ELSE IF tm[tool_name] \notin sess
         THEN [to |-> "no_session"]
         ELSE [to |-> "session", server |-> tm[tool_name]]

(* ------------------------- filter_input_schema ------------------------ *)

\* a Python list
PyList(items) == [py |-> "list", items |-> items]

\* isinstance(v, list)
IsList(v) == v.py = "list"

\* d[k] = v on a dict
DictSet(d, k, v) == [x \in (DOMAIN d) \cup {k} |-> IF x = k THEN v ELSE d[x]]

\* del d[k]
DictDel(d, k) == [x \in (DOMAIN d) \ {k} |-> d[x]]

\* list(properties.keys()): the keys in declaration order
PropertyKeys(props) == [i \in DOMAIN props |-> props[i].key]

\* AppendMissing without the `not in` test: every key is appended
RECURSIVE AppendMissing_NoCheck(_, _)
AppendMissing_NoCheck(req, keys) ==
    IF keys = <<>> THEN req
    ELSE AppendMissing_NoCheck(Append(req, Head(keys)), Tail(keys))

\* for key in keys: if key not in required: required.append(key)
RECURSIVE AppendMissing(_, _)
AppendMissing(req, keys) ==
    IF keys = <<>> THEN req
    ELSE AppendMissing(
            IF \E i \in DOMAIN req : req[i] = Head(keys)
            THEN req ELSE Append(req, Head(keys)),
            Tail(keys))

\* RequiredAfter that always replaces the list by the property keys
RequiredAfter_ReplaceAlways(schema) == PyList(PropertyKeys(schema["properties"]))

\* input_schema["required"] after the first if/else of filter_input_schema
RequiredAfter(schema) ==
    IF "required" \notin DOMAIN schema \/ ~IsList(schema["required"])
    THEN PyList(PropertyKeys(schema["properties"]))
    ELSE PyList(AppendMissing(schema["required"].items,
                              PropertyKeys(schema["properties"])))

\* StripDefault that leaves the default in place
StripDefault_Keep(value) == value

\* if "default" in value: del value["default"]
StripDefault(value) ==
    IF "default" \in DOMAIN value THEN DictDel(value, "default") ELSE value

\* WithAdditionalProperties that overwrites a declared flag
WithAdditionalProperties_Overwrite(schema) ==
    DictSet(schema, "additionalProperties", FALSE)

\* if "additionalProperties" not in input_schema: set it to False
WithAdditionalProperties(schema) ==
    IF "additionalProperties" \notin DOMAIN schema
    THEN DictSet(schema, "additionalProperties", FALSE)
    ELSE schema

\* FilterInputSchema that closes a schema without properties as well
FilterInputSchema_AlwaysClose(input_schema) ==
    IF "properties" \in DOMAIN input_schema
    THEN LET s1 == DictSet(input_schema, "required", RequiredAfter(input_schema))
             s2 == DictSet(s1, "properties",
                       [i \in DOMAIN s1["properties"] |->
                           [key |-> s1["properties"][i].key,
                            value |-> StripDefault(s1["properties"][i].value)]])
         IN WithAdditionalProperties(s2)
    ELSE WithAdditionalProperties(input_schema)

\* filter_input_schema: the value of the schema object when it returns
FilterInputSchema(input_schema) ==
    IF "properties" \in DOMAIN input_schema
    THEN LET s1 == DictSet(input_schema, "required", RequiredAfter(input_schema))
             s2 == DictSet(s1, "properties",
                       [i \in DOMAIN s1["properties"] |->
                           [key |-> s1["properties"][i].key,
                            value |-> StripDefault(s1["properties"][i].value)]])
         IN WithAdditionalProperties(s2)
    ELSE input_schema

\* the tool definition main and get_tools build for the model
ToolDefinition(name, input_schema) ==
    [type |-> "function",
     function |-> [name |-> name, strict |-> TRUE,
                   parameters |-> FilterInputSchema(input_schema)]]

\* tool.inputSchema as the provider declares it: toolA has a default and an
\* incomplete required list, toolB has no properties, any other tool has
\* properties and nothing else
DeclaredSchema(name) ==
    IF name = "toolA"
    THEN [type |-> "object",
          properties |-> <<[key |-> "a", value |-> [type |-> "integer", default |-> "5"]],
                           [key |-> "b", value |-> [type |-> "string"]]>>,
          required |-> PyList(<<"b">>)]
    ELSE IF name = "toolB"
    THEN [type |-> "object"]
    ELSE [type |-> "object",
          properties |-> <<[key |-> "query", value |-> [type |-> "string"]]>>]

\* the inputSchema of every tool object list_tools returns
SchemasOf(tools) == [i \in DOMAIN tools |-> DeclaredSchema(tools[i])]

\* the schemas after the list comprehension of main and get_tools called
\* filter_input_schema on each of them, in place
FilteredSchemas(schemas) == [i \in DOMAIN schemas |-> FilterInputSchema(schemas[i])]

\* tools_json: one definition per tool object, in the order of the list
ToolsJson(tools, schemas) ==
    [i \in DOMAIN tools |-> ToolDefinition(tools[i], schemas[i])]

(* ------------------------------- state -------------------------------- *)

VARIABLES
    pc,             \* position of the chat generator
    max_turns,      \* chat's max_turns argument
    turn,           \* iterations of `for _ in range(max_turns)` started
    input_messages, \* the caller's list
    chat_messages,  \* chat's working copy of the conversation
    tool_map,       \* tool name -> server name
    sessions,       \* keys of ConnectionManager.sessions
    tool_calls,     \* result.choices[0].message.tool_calls of this turn
    idx,            \* index of the tool call being processed
    observation,    \* value returned by connection_manager.call_tool
    events,         \* what the generator has yielded so far
    modelLog,       \* the calls made to client.chat.completions.create
    sessionCalls,   \* the calls made to session.call_tool
    error           \* the exception that left chat, "" when none

chatVars == <<pc, max_turns, turn, input_messages, chat_messages, tool_map,
              sessions, tool_calls, idx, observation, events, modelLog,
              sessionCalls, error>>

VARIABLES
    cm_pc,            \* position of the caller of the ConnectionManager
    stdio_server_map, \* keys of self.stdio_server_map, in order
    sse_server_map,   \* keys of self.sse_server_map, in order
    init_queue,       \* providers initialize has still to open
    init_step,        \* the await initialize is at for the head of init_queue
    exit_stack,       \* exit callbacks registered on self.exit_stack
    session_keys,     \* keys of self.sessions in insertion order
    acquired,         \* every resource entered on the exit stack, in order
    closeLog,         \* every exit callback run by aclose, in order
    close_pending,    \* the exception aclose will raise when it is done
    close_calls,      \* calls of ConnectionManager.close so far
    cm_error,         \* the exception that left the last manager method
    declared,         \* server name -> tools.tools of its session
    list_asked,       \* sessions list_tools has awaited so far
    consolidated      \* consolidated_tools returned by list_tools

registryVars == <<cm_pc, stdio_server_map, sse_server_map, init_queue,
                  init_step, exit_stack, session_keys, acquired, closeLog,
                  close_pending, close_calls, cm_error, declared, list_asked,
                  consolidated>>

VARIABLES
    schema_orig,   \* the input schema as it was before filter_input_schema
    schema_obj,    \* the schema object, which filter_input_schema changes in place
    schema_once,   \* what the first call of filter_input_schema returned
    schema_calls   \* calls of filter_input_schema on the object so far

schemaVars == <<schema_orig, schema_obj, schema_once, schema_calls>>

VARIABLES
    tool_schemas,  \* inputSchema of each tool object of consolidated_tools
    tools_json     \* the tool definitions main and get_tools build

toolVars == <<tool_schemas, tools_json>>

\* the variables the chat generator never touches
nonChatVars == <<registryVars, schemaVars, toolVars>>

vars == <<chatVars, nonChatVars>>

\* the seed conversation built by main
SeedMessages ==
    <<[role |-> "system", content |-> "expert"],
      [role |-> "user", content |-> "question"]>>

\* tool calls requested by the model calls logged so far
RECURSIVE RequestsOf(_)
RequestsOf(log) ==
    IF log = <<>> THEN <<>>
    ELSE LET r == log[Len(log)].response
             front == RequestsOf(SubSeq(log, 1, Len(log) - 1))
         IN IF r.finish_reason = "tool_calls" THEN front \o r.tool_calls
            ELSE front

\* the id the model gives to its n-th requested tool call
CallId(n) == "call_" \o ToString(n)

\* the responses the model can give to a call that carries tool definitions
ToolResponses(requested) ==
    LET Choice == [name : RequestedNames, arguments : ArgStrings]
        Picks == UNION {[1..n -> Choice] : n \in 1..MaxCalls}
    IN {[finish_reason |-> "tool_calls",
         tool_calls |-> [i \in DOMAIN p |->
                            [id |-> CallId(requested + i),
                             name |-> p[i].name,
                             arguments |-> p[i].arguments]]] : p \in Picks}

\* the responses that request no tool
FinalResponses == {[finish_reason |-> "stop", content |-> t] : t \in FinalTexts}

\* an entry of a server map: the provider's name and its transport kind
Provider(name, via) == [name |-> name, via |-> via]

\* the providers in the order initialize opens them: stdio, then SSE
ProvidersOf(stdio, sse) ==
    [i \in DOMAIN stdio |-> Provider(stdio[i], "stdio")]
       \o [i \in DOMAIN sse |-> Provider(sse[i], "sse")]

\* the stdio_client / sse_client context entered for a provider
Transport(p) == [kind |-> "transport", server |-> p.name, via |-> p.via]

\* the ClientSession context entered for a provider
Session(p) == [kind |-> "session", server |-> p.name, via |-> p.via]

\* the resources a successful initialize enters on the exit stack, in order
RECURSIVE AcquisitionOrder(_)
AcquisitionOrder(providers) ==
    IF providers = <<>> THEN <<>>
    ELSE <<Transport(Head(providers)), Session(Head(providers))>>
            \o AcquisitionOrder(Tail(providers))

\* self.sessions[server_name] = session on the key order of a dict
DictSetKey(keys, k) ==
    IF \E i \in DOMAIN keys : keys[i] = k THEN keys ELSE Append(keys, k)

\* the key order of self.sessions after a successful initialize
RECURSIVE SessionKeysOf(_)
SessionKeysOf(providers) ==
    IF providers = <<>> THEN <<>>
    ELSE DictSetKey(SessionKeysOf(SubSeq(providers, 1, Len(providers) - 1)),
                    providers[Len(providers)].name)

\* the elements of a sequence
Range(seq) == {seq[i] : i \in DOMAIN seq}

\* no schema is being filtered
SchemaIdle ==
    /\ schema_orig = [type |-> "object"]
    /\ schema_obj = [type |-> "object"]
    /\ schema_once = [type |-> "object"]
    /\ schema_calls = 0

\* the manager as main leaves it after initialize_servers and list_tools
RegistryListed(stdio, sse, decl) ==
    /\ cm_pc = "listed"
    /\ stdio_server_map = stdio
    /\ sse_server_map = sse
    /\ init_queue = <<>>
    /\ init_step = "transport"
    /\ exit_stack = AcquisitionOrder(ProvidersOf(stdio, sse))
    /\ session_keys = SessionKeysOf(ProvidersOf(stdio, sse))
    /\ acquired = AcquisitionOrder(ProvidersOf(stdio, sse))
    /\ closeLog = <<>>
    /\ close_pending = ""
    /\ close_calls = 0
    /\ cm_error = ""
    /\ declared = decl
    /\ list_asked = Len(SessionKeysOf(ProvidersOf(stdio, sse)))
    /\ consolidated = ListTools(SessionKeysOf(ProvidersOf(stdio, sse)), decl).tools

\* no tool object yet: list_tools has not returned
ToolsIdle ==
    /\ tool_schemas = <<>>
    /\ tools_json = <<>>

\* list_tools has returned the tool objects; no definition is built yet
ToolsListed ==
    /\ tool_schemas = SchemasOf(consolidated)
    /\ tools_json = <<>>

\* main has built tools_json from the tool objects
ToolsBuilt ==
    /\ tool_schemas = FilteredSchemas(SchemasOf(consolidated))
    /\ tools_json = ToolsJson(consolidated, SchemasOf(consolidated))

Init ==
    /\ RegistryListed(ServerNames, <<>>, DeclaredTools)
    /\ ToolsBuilt
    /\ SchemaIdle
    /\ pc = "loop"
    /\ max_turns \in 0..MaxTurns
    /\ turn = 0
    /\ input_messages = SeedMessages
    /\ chat_messages = input_messages
    /\ tool_map = ListTools(ServerNames, DeclaredTools).tool_map
    /\ sessions = {ServerNames[i] : i \in DOMAIN ServerNames}
    /\ tool_calls = <<>>
    /\ idx = 0
    /\ observation = NoneVal
    /\ events = <<>>
    /\ modelLog = <<>>
    /\ sessionCalls = <<>>
    /\ error = ""

(* ------------------------------ actions ------------------------------- *)

\* the message appended for a response that requests tools
AssistantMessage(resp) == [role |-> "assistant", tool_calls |-> resp.tool_calls]

\* ToolMessage correlating by the tool name instead of the request id
ToolMessage_NameAsId(call, obs) ==
    [role |-> "tool", tool_call_id |-> call.name, content |-> PyStr(obs)]

\* the tool-role message appended after a tool call
ToolMessage(call, obs) ==
    [role |-> "tool", tool_call_id |-> call.id, content |-> PyStr(obs)]

\* AppendToolMessage appending nothing when call_tool returned None
AppendToolMessage_SkipNone(msgs, call, obs) ==
    IF obs = NoneVal THEN msgs ELSE Append(msgs, ToolMessage(call, obs))

\* the conversation after the tool-role message of a call is appended
AppendToolMessage(msgs, call, obs) == Append(msgs, ToolMessage(call, obs))

\* the yielded "Tool Call" log message
ToolCallEvent(tm, call, args) ==
    [role |-> "assistant", kind |-> "tool_call", tool |-> call.name,
     provider |-> ServerForLog(tm, call.name), input |-> JsonDumps(args)]

\* the yielded "Tool Observation" log message
ToolResultEvent(tm, call, obs) ==
    [role |-> "assistant", kind |-> "tool_result", tool |-> call.name,
     provider |-> ServerForLog(tm, call.name), output |-> JsonDumps(obs)]

\* the yielded final answer
FinalEvent(resp) ==
    [role |-> "assistant", kind |-> "final", content |-> resp.content]

\* one iteration of the for loop up to its first suspension point
ModelCall ==
    /\ UNCHANGED nonChatVars
    /\ pc = "loop"
    /\ turn < max_turns
    /\ \E resp \in ToolResponses(Len(RequestsOf(modelLog))) \cup FinalResponses :
        /\ modelLog' = Append(modelLog,
               [tools |-> TRUE, messages |-> chat_messages, response |-> resp])
        /\ turn' = turn + 1
        /\ IF resp.finish_reason = "tool_calls"
           THEN /\ chat_messages' = Append(chat_messages, AssistantMessage(resp))
                /\ tool_calls' = resp.tool_calls
                /\ idx' = 1
                /\ pc' = "tool_call"
                /\ UNCHANGED events
           ELSE /\ events' = Append(events, FinalEvent(resp))
                /\ pc' = "answered"
                /\ UNCHANGED <<chat_messages, tool_calls, idx>>
    /\ UNCHANGED <<max_turns, input_messages, tool_map, sessions, observation,
                   sessionCalls, error>>

\* the model call made after the loop, without tool definitions
FinalCall ==
    /\ UNCHANGED nonChatVars
    /\ pc = "loop"
    /\ turn >= max_turns
    /\ \E resp \in FinalResponses :
        /\ modelLog' = Append(modelLog,
               [tools |-> FALSE, messages |-> chat_messages, response |-> resp])
        /\ events' = Append(events, FinalEvent(resp))
    /\ pc' = "answered"
    /\ UNCHANGED <<max_turns, turn, input_messages, chat_messages, tool_map,
                   sessions, tool_calls, idx, observation, sessionCalls, error>>

\* ChatReturn without the return statement: the loop goes on
ChatReturn_NoReturn ==
    /\ UNCHANGED nonChatVars
    /\ pc = "answered"
    /\ pc' = "loop"
    /\ UNCHANGED <<max_turns, turn, input_messages, chat_messages, tool_map,
                   sessions, tool_calls, idx, observation, events, modelLog,
                   sessionCalls, error>>

\* the generator is resumed after it yielded the final answer
ChatReturn ==
    /\ UNCHANGED nonChatVars
    /\ pc = "answered"
    /\ pc' = "done"
    /\ UNCHANGED <<max_turns, turn, input_messages, chat_messages, tool_map,
                   sessions, tool_calls, idx, observation, events, modelLog,
                   sessionCalls, error>>

\* start of the body of `for tool_call in ...`: parse, then yield the call
ToolCallBegin ==
    /\ UNCHANGED nonChatVars
    /\ pc = "tool_call"
    /\ LET call == tool_calls[idx]
           parsed == JsonLoads(call.arguments)
       IN IF parsed.ok
          THEN /\ events' = Append(events, ToolCallEvent(tool_map, call, parsed.value))
               /\ pc' = "call_tool"
               /\ UNCHANGED error
          ELSE /\ error' = parsed.error
               /\ pc' = "raised"
               /\ UNCHANGED events
    /\ UNCHANGED <<max_turns, turn, input_messages, chat_messages, tool_map,
                   sessions, tool_calls, idx, observation, modelLog,
                   sessionCalls>>

\* connection_manager.call_tool up to its suspension point: a call routed to
\* a session is sent and awaited; any other call returns None at once and
\* the observation is yielded
ToolDispatch ==
    /\ UNCHANGED nonChatVars
    /\ pc = "call_tool"
    /\ LET call == tool_calls[idx]
           route == Route(tool_map, sessions, call.name)
       IN IF route.to = "session"
          THEN /\ sessionCalls' = Append(sessionCalls,
                      [server |-> route.server, tool |-> call.name,
                       arguments |-> JsonLoads(call.arguments).value])
               /\ pc' = "awaiting_tool"
               /\ UNCHANGED <<observation, events, error>>
          ELSE /\ observation' = NoneVal
               /\ events' = Append(events, ToolResultEvent(tool_map, call, NoneVal))
               /\ pc' = "append"
               /\ UNCHANGED <<sessionCalls, error>>
    /\ UNCHANGED <<max_turns, turn, input_messages, chat_messages, tool_map,
                   sessions, tool_calls, idx, modelLog>>

\* the await of session.call_tool completes: the text of the result is the
\* observation and is yielded, or the exception of the session leaves chat
ToolReturn ==
    /\ UNCHANGED nonChatVars
    /\ pc = "awaiting_tool"
    /\ \/ \E t \in ProviderTexts :
            /\ observation' = Str(t)
            /\ events' = Append(events,
                   ToolResultEvent(tool_map, tool_calls[idx], Str(t)))
            /\ pc' = "append"
            /\ UNCHANGED error
       \/ /\ error' = "McpError"
          /\ pc' = "raised"
          /\ UNCHANGED <<observation, events>>
    /\ UNCHANGED <<max_turns, turn, input_messages, chat_messages, tool_map,
                   sessions, tool_calls, idx, modelLog, sessionCalls>>

\* ToolAppend on a conversation that is the caller's list, not a copy of it
ToolAppend_Aliased ==
    /\ UNCHANGED nonChatVars
    /\ pc = "append"
    /\ chat_messages' = AppendToolMessage(chat_messages, tool_calls[idx], observation)
    /\ input_messages' = chat_messages'
    /\ IF idx < Len(tool_calls)
       THEN /\ idx' = idx + 1
            /\ pc' = "tool_call"
       ELSE /\ idx' = idx
            /\ pc' = "loop"
    /\ UNCHANGED <<max_turns, turn, tool_map, sessions,
                   tool_calls, observation, events, modelLog, sessionCalls,
                   error>>

\* resumed after the observation was yielded: append the tool message
ToolAppend ==
    /\ UNCHANGED nonChatVars
    /\ pc = "append"
    /\ chat_messages' = AppendToolMessage(chat_messages, tool_calls[idx], observation)
    /\ IF idx < Len(tool_calls)
       THEN /\ idx' = idx + 1
            /\ pc' = "tool_call"
       ELSE /\ idx' = idx
            /\ pc' = "loop"
    /\ UNCHANGED <<max_turns, turn, input_messages, tool_map, sessions,
                   tool_calls, observation, events, modelLog, sessionCalls,
                   error>>

Next ==
    \/ ModelCall
    \/ FinalCall
    \/ ChatReturn
    \/ ToolCallBegin
    \/ ToolDispatch
    \/ ToolReturn
    \/ ToolAppend

Spec == Init /\ [][Next]_vars

TypeOK ==
    /\ pc \in {"loop", "tool_call", "call_tool", "awaiting_tool", "append",
              "answered", "done", "raised"}
    /\ turn \in 0..MaxTurns
    /\ error \in {"", "JSONDecodeError", "McpError"}

(* ------------------------ derived observations ------------------------ *)

\* the generator has finished, by returning or by raising
RunEnded == pc \in {"done", "raised"}

\* every tool call the model has requested so far, in request order
Requests == RequestsOf(modelLog)

\* the tool_call_id of the tool-role messages of a conversation, in order
ToolMessageIds(msgs) ==
    LET IsTool(m) == m.role = "tool"
        toolMsgs == SelectSeq(msgs, IsTool)
    IN [i \in DOMAIN toolMsgs |-> toolMsgs[i].tool_call_id]

\* the ids of a sequence of requested tool calls, in order
IdsOf(calls) == [i \in DOMAIN calls |-> calls[i].id]

\* positions of the final-answer events
FinalPositions == {i \in DOMAIN events : events[i].kind = "final"}

\* a message reduced to what identifies it (a tool message: role and id)
Skeleton(m) ==
    IF m.role = "tool" THEN [role |-> "tool", tool_call_id |-> m.tool_call_id]
    ELSE m

\* the messages a logged sequence of model calls adds to the conversation
\* when every requested tool call is answered: per tool turn the assistant
\* tool-call message, then one tool message per request, in request order
RECURSIVE TurnSkeletons(_)
TurnSkeletons(log) ==
    IF log = <<>> THEN <<>>
    ELSE LET r == log[Len(log)].response
             front == TurnSkeletons(SubSeq(log, 1, Len(log) - 1))
         IN IF r.finish_reason = "tool_calls"
            THEN front \o <<[role |-> "assistant", tool_calls |-> r.tool_calls]>>
                       \o [i \in DOMAIN r.tool_calls |->
                              [role |-> "tool", tool_call_id |-> r.tool_calls[i].id]]
            ELSE front

\* the kind, tool and provider of the events a logged sequence of model
\* calls produces when every requested tool call is answered
RECURSIVE ExpectedEventShape(_, _)
ExpectedEventShape(tm, log) ==
    IF log = <<>> THEN <<>>
    ELSE LET r == log[Len(log)].response
             front == ExpectedEventShape(tm, SubSeq(log, 1, Len(log) - 1))
         IN IF r.finish_reason = "tool_calls"
            THEN front \o [j \in 1..(2 * Len(r.tool_calls)) |->
                     LET c == r.tool_calls[(j + 1) \div 2]
                     IN [kind |-> IF j % 2 = 1 THEN "tool_call" ELSE "tool_result",
                         tool |-> c.name,
                         provider |-> ServerForLog(tm, c.name)]]
            ELSE front \o <<[kind |-> "final", tool |-> "", provider |-> ""]>>

\* the kind, tool and provider of the events yielded so far
EventShape ==
    [i \in DOMAIN events |->
        IF events[i].kind = "final"
        THEN [kind |-> "final", tool |-> "", provider |-> ""]
        ELSE [kind |-> events[i].kind, tool |-> events[i].tool,
              provider |-> events[i].provider]]

(* ------------------------------- claims ------------------------------- *)

\* C1: whatever the requested tool calls do, when the run has ended the
\* event sequence holds exactly one final-answer event and it is the last.
C1_OneFinalAnswerLast ==
    RunEnded =>
        /\ Cardinality(FinalPositions) = 1
        /\ Len(events) \in FinalPositions

\* C2: when the model requested a tool call on every tool-enabled call, the
\* ended run made exactly max_turns + 1 model calls, the first max_turns with
\* tool definitions and the last one without, and the content of the last one
\* is the final event, which is the last event.
C2_BudgetThenForcedAnswer ==
    (/\ RunEnded
     /\ \A i \in DOMAIN modelLog :
           modelLog[i].tools => modelLog[i].response.finish_reason = "tool_calls")
    => /\ Len(modelLog) = max_turns + 1
       /\ \A i \in 1..max_turns : modelLog[i].tools
       /\ ~modelLog[max_turns + 1].tools
       /\ events # <<>>
       /\ events[Len(events)] = FinalEvent(modelLog[max_turns + 1].response)

\* a step taken after the final answer was emitted: no model call, no tool
\* invocation and no event
NothingAfterAnswer ==
    pc \in {"answered", "done"} =>
        /\ pc' \in {"answered", "done"}
        /\ modelLog' = modelLog
        /\ sessionCalls' = sessionCalls
        /\ events' = events

\* a response that requests no tool is the last model call, and its content
\* is the one final event, which is the last event
AnswerIsLast ==
    \A i \in DOMAIN modelLog :
        modelLog[i].response.finish_reason # "tool_calls" =>
           /\ i = Len(modelLog)
           /\ pc \in {"answered", "done"}
           /\ FinalPositions = {Len(events)}
           /\ events[Len(events)] = FinalEvent(modelLog[i].response)
           /\ (i = 1 => Len(events) = 1 /\ sessionCalls = <<>>)

\* C3: a response that requests no tool is the last model call of the run:
\* its content is the one final event, which is the last event; once it is
\* emitted no model call, no tool invocation and no event follows, whatever
\* budget remains; when it is the first response, the run has one model call,
\* one event (the final one) and has invoked no tool.
C3_StopsAtAnswer == []AnswerIsLast /\ [][NothingAfterAnswer]_vars

\* C3 witness: the model answered directly on the first call, with turn
\* budget left, and the generator has returned.
C3_Witness ==
    /\ pc = "done"
    /\ Len(modelLog) = 1
    /\ modelLog[1].tools
    /\ turn < max_turns
    /\ Len(events) = 1

\* C4: every tool_call event is immediately followed by the tool_result event
\* of the same call (same tool and provider), the only exception being the
\* time the tool is being dispatched or awaited; the session call of a routed tool is
\* made between the two; and the events of an ended run are, turn by turn and
\* in request order, tool_call(c), tool_result(c) for every requested call c,
\* then the final event.
C4_CallThenResultInOrder ==
    /\ \A i \in DOMAIN events :
          events[i].kind = "tool_call" =>
             \/ (i = Len(events) /\ pc \in {"call_tool", "awaiting_tool"})
             \/ /\ i < Len(events)
                /\ events[i + 1].kind = "tool_result"
                /\ events[i + 1].tool = events[i].tool
                /\ events[i + 1].provider = events[i].provider
    /\ RunEnded => EventShape = ExpectedEventShape(tool_map, modelLog)

\* C5: the tool-role messages of the conversation answer requested calls
\* only, at most once each and in request order, each after the assistant
\* message that requested it; once a turn is over (the loop is back at a
\* model call, or the run has ended) every requested call has exactly one.
C5_OneToolMessagePerRequest ==
    LET ids == ToolMessageIds(chat_messages)
        req == IdsOf(Requests)
    IN /\ Len(ids) <= Len(req)
       /\ ids = SubSeq(req, 1, Len(ids))
       /\ \A k \in DOMAIN chat_messages :
             chat_messages[k].role = "tool" =>
                \E j \in 1..(k - 1) :
                   /\ chat_messages[j].role = "assistant"
                   /\ \E c \in DOMAIN chat_messages[j].tool_calls :
                         chat_messages[j].tool_calls[c].id = chat_messages[k].tool_call_id
       /\ (pc = "loop" \/ RunEnded) => ids = req

\* C6: the conversation passed to every model call after the first holds
\* exactly one tool-role message for every tool call requested before it.
C6_ModelCallSeesAllResults ==
    /\ \A i \in DOMAIN modelLog :
          ToolMessageIds(modelLog[i].messages)
             = IdsOf(RequestsOf(SubSeq(modelLog, 1, i - 1)))
    /\ pc = "loop" => ToolMessageIds(chat_messages) = IdsOf(Requests)

\* C6 witness: a second model call was made after a turn that requested two
\* tool calls, one of them for a tool nobody declares.
C6_Witness ==
    /\ Len(modelLog) >= 2
    /\ Len(modelLog[1].response.tool_calls) = 2
    /\ \E c \in 1..2 : modelLog[1].response.tool_calls[c].name \notin DOMAIN tool_map
    /\ Len(ToolMessageIds(modelLog[2].messages)) = 2

\* C7 (as stated): at the end of a run that reached a final answer the
\* conversation is the seeds, the messages of the tool turns, and finally one
\* assistant message holding the final answer.
C7_EndsWithFinalAssistantMessage ==
    pc = "done" =>
        /\ Len(chat_messages) = Len(SeedMessages) + Len(TurnSkeletons(modelLog)) + 1
        /\ chat_messages[Len(chat_messages)] =
              [role |-> "assistant",
               content |-> modelLog[Len(modelLog)].response.content]

\* C7 (amended): at the end of a run that reached a final answer the
\* conversation is the seeds, then for each tool turn the assistant tool-call
\* message followed by that turn's tool messages in request order, and
\* nothing else: the final answer is yielded, not appended.
C7_SeedsThenToolTurns ==
    pc \in {"answered", "done"} =>
        /\ [k \in DOMAIN chat_messages |-> Skeleton(chat_messages[k])]
              = SeedMessages \o TurnSkeletons(modelLog)
        /\ events[Len(events)].kind = "final"

\* C7 witness: the model requested toolA and toolB in one turn and then
\* answered; the conversation holds five messages.
C7_Witness ==
    /\ pc = "done"
    /\ Len(modelLog) = 2
    /\ Len(modelLog[1].response.tool_calls) = 2
    /\ modelLog[1].response.tool_calls[1].name = "toolA"
    /\ modelLog[1].response.tool_calls[2].name = "toolB"
    /\ Len(chat_messages) = 5
    /\ chat_messages[4].role = "tool"
    /\ chat_messages[5].role = "tool"

\* the requested call a tool-role message answers
RequestOf(m) ==
    CHOOSE r \in {Requests[i] : i \in DOMAIN Requests} : r.id = m.tool_call_id

\* C8: a tool name absent from the tool map raises nothing and reaches no
\* session, and the correlated tool message carries the tool-not-found error
\* text.
C8_NotFoundIsErrorText ==
    /\ \A k \in DOMAIN sessionCalls : sessionCalls[k].tool \in DOMAIN tool_map
    /\ \A k \in DOMAIN chat_messages :
          (/\ chat_messages[k].role = "tool"
           /\ RequestOf(chat_messages[k]).name \notin DOMAIN tool_map)
          => chat_messages[k].content
                = ToolNotFoundText(RequestOf(chat_messages[k]).name)

\* C9: an argument string that does not parse never ends the run: the call
\* gets a tool message and so do the other calls of its turn.
C9_ParseFailureIsLocal ==
    /\ error # "JSONDecodeError"
    /\ \A i \in DOMAIN Requests :
          (~JsonLoads(Requests[i].arguments).ok /\ (pc = "loop" \/ RunEnded))
          => ToolMessageIds(chat_messages) = IdsOf(Requests)

\* the tool_result events of calls that were routed to a session
RoutedResults ==
    {j \in DOMAIN events :
        events[j].kind = "tool_result" /\ events[j].provider \in sessions}

\* C10: an error raised by the provider session never leaves call_tool: every
\* call made to a session is answered, once its await is over, by a
\* tool_result event and a tool message, and a run that called a session and parsed all its arguments
\* ends with its final answer.
C10_ProviderErrorIsText ==
    /\ error # "McpError"
    /\ Cardinality(RoutedResults)
          = Len(sessionCalls) - (IF pc = "awaiting_tool" THEN 1 ELSE 0)
    /\ (RunEnded /\ sessionCalls # <<>> /\ error # "JSONDecodeError")
          => Len(events) \in FinalPositions

(* ------------------- ConnectionManager: the registry ------------------- *)

\* the chat variables the ConnectionManager methods never touch
chatRest == <<pc, max_turns, turn, input_messages, chat_messages, tool_calls,
              idx, events, modelLog, error>>

\* the stdio server maps explored: P1, P2, ... in order
StdioMaps == {[i \in 1..n |-> "P" \o ToString(i)] : n \in 0..MaxStdio}

\* the SSE server maps explored; P1 is also a key of the stdio map
SseMaps ==
    {m \in UNION {[1..n -> {"S1", "P1"}] : n \in 0..MaxSse} :
        \A i, j \in DOMAIN m : i # j => m[i] # m[j]}

\* the tool list of a provider: a tool of its own and one every provider has
ConnDeclared(server) == <<"tool_" \o server, "search">>

\* a freshly constructed manager, before main runs chat
InitConn ==
    /\ SchemaIdle
    /\ ToolsIdle
    /\ list_asked = 0
    /\ cm_pc = "initializing"
    /\ stdio_server_map \in StdioMaps
    /\ sse_server_map \in SseMaps
    /\ init_queue = ProvidersOf(stdio_server_map, sse_server_map)
    /\ init_step = "transport"
    /\ exit_stack = <<>>
    /\ session_keys = <<>>
    /\ sessions = {}
    /\ acquired = <<>>
    /\ closeLog = <<>>
    /\ close_pending = ""
    /\ close_calls = 0
    /\ cm_error = ""
    /\ declared = [srv \in Range(stdio_server_map) \cup Range(sse_server_map)
                      |-> ConnDeclared(srv)]
    /\ consolidated = <<>>
    /\ tool_map = [n \in {} |-> ""]
    /\ pc = "not_started"
    /\ max_turns = 0
    /\ turn = 0
    /\ input_messages = SeedMessages
    /\ chat_messages = <<>>
    /\ tool_calls = <<>>
    /\ idx = 0
    /\ observation = NoneVal
    /\ events = <<>>
    /\ modelLog = <<>>
    /\ sessionCalls = <<>>
    /\ error = ""

\* initialize: enter_async_context(stdio_client(...) / sse_client(...))
OpenTransport ==
    /\ UNCHANGED <<schemaVars, toolVars>>
    /\ cm_pc = "initializing"
    /\ init_queue # <<>>
    /\ init_step = "transport"
    /\ \/ /\ exit_stack' = Append(exit_stack, Transport(Head(init_queue)))
          /\ acquired' = Append(acquired, Transport(Head(init_queue)))
          /\ init_step' = "session"
          /\ UNCHANGED <<cm_pc, cm_error>>
       \/ /\ cm_pc' = "init_failed"
          /\ cm_error' = "ConnectError"
          /\ UNCHANGED <<exit_stack, acquired, init_step>>
    /\ UNCHANGED <<stdio_server_map, sse_server_map, init_queue, session_keys,
                   closeLog, close_pending, close_calls, declared, list_asked, consolidated,
                   chatRest, tool_map, sessions, observation, sessionCalls>>

\* initialize: enter_async_context(ClientSession(read, write))
OpenSession ==
    /\ UNCHANGED <<schemaVars, toolVars>>
    /\ cm_pc = "initializing"
    /\ init_queue # <<>>
    /\ init_step = "session"
    /\ \/ /\ exit_stack' = Append(exit_stack, Session(Head(init_queue)))
          /\ acquired' = Append(acquired, Session(Head(init_queue)))
          /\ init_step' = "handshake"
          /\ UNCHANGED <<cm_pc, cm_error>>
       \/ /\ cm_pc' = "init_failed"
          /\ cm_error' = "SessionError"
          /\ UNCHANGED <<exit_stack, acquired, init_step>>
    /\ UNCHANGED <<stdio_server_map, sse_server_map, init_queue, session_keys,
                   closeLog, close_pending, close_calls, declared, list_asked, consolidated,
                   chatRest, tool_map, sessions, observation, sessionCalls>>

\* initialize: await session.initialize(), then self.sessions[name] = session
Handshake ==
    /\ UNCHANGED <<schemaVars, toolVars>>
    /\ cm_pc = "initializing"
    /\ init_queue # <<>>
    /\ init_step = "handshake"
    /\ \/ /\ session_keys' = DictSetKey(session_keys, Head(init_queue).name)
          /\ sessions' = sessions \cup {Head(init_queue).name}
          /\ init_queue' = Tail(init_queue)
          /\ init_step' = "transport"
          /\ UNCHANGED <<cm_pc, cm_error>>
       \/ /\ cm_pc' = "init_failed"
          /\ cm_error' = "HandshakeError"
          /\ UNCHANGED <<session_keys, sessions, init_queue, init_step>>
    /\ UNCHANGED <<stdio_server_map, sse_server_map, exit_stack, acquired,
                   closeLog, close_pending, close_calls, declared, list_asked, consolidated,
                   chatRest, tool_map, observation, sessionCalls>>

\* initialize returns after both loops
InitializeReturn ==
    /\ UNCHANGED <<schemaVars, toolVars>>
    /\ cm_pc = "initializing"
    /\ init_queue = <<>>
    /\ cm_pc' = "ready"
    /\ UNCHANGED <<stdio_server_map, sse_server_map, init_queue, init_step,
                   exit_stack, session_keys, acquired, closeLog, close_pending,
                   close_calls, cm_error, declared, list_asked, consolidated,
                   chatRest, tool_map, sessions, observation, sessionCalls>>

\* ConnectionManager.list_tools up to its first suspension point: the first
\* session is asked for its tools; without sessions it returns at once
ListToolsCall ==
    /\ UNCHANGED schemaVars
    /\ cm_pc = "ready"
    /\ IF session_keys = <<>>
       THEN /\ tool_map' = ListTools(session_keys, declared).tool_map
            /\ consolidated' = ListTools(session_keys, declared).tools
            /\ tool_schemas' = SchemasOf(ListTools(session_keys, declared).tools)
            /\ cm_pc' = "listed"
            /\ UNCHANGED list_asked
       ELSE /\ list_asked' = 1
            /\ cm_pc' = "listing"
            /\ UNCHANGED <<tool_map, consolidated, tool_schemas>>
    /\ UNCHANGED <<stdio_server_map, sse_server_map, init_queue, init_step,
                   exit_stack, session_keys, acquired, closeLog, close_pending,
                   close_calls, declared, chatRest, sessions, observation,
                   sessionCalls, cm_error, tools_json>>

\* the await of session.list_tools completes: the session raises, or its
\* tools go into the map and the list and the next session is asked; after
\* the last session list_tools returns the map and the list
ListToolsAnswer ==
    /\ UNCHANGED schemaVars
    /\ cm_pc = "listing"
    /\ \/ /\ list_asked < Len(session_keys)
          /\ list_asked' = list_asked + 1
          /\ UNCHANGED <<cm_pc, cm_error, tool_map, consolidated, tool_schemas>>
       \/ /\ list_asked = Len(session_keys)
          /\ tool_map' = ListTools(session_keys, declared).tool_map
          /\ consolidated' = ListTools(session_keys, declared).tools
          /\ tool_schemas' = SchemasOf(ListTools(session_keys, declared).tools)
          /\ cm_pc' = "listed"
          /\ UNCHANGED <<list_asked, cm_error>>
       \/ /\ cm_pc' = "list_failed"
          /\ cm_error' = "McpError"
          /\ UNCHANGED <<list_asked, tool_map, consolidated, tool_schemas>>
    /\ UNCHANGED <<stdio_server_map, sse_server_map, init_queue, init_step,
                   exit_stack, session_keys, acquired, closeLog, close_pending,
                   close_calls, declared, chatRest, sessions, observation,
                   sessionCalls, tools_json>>

\* ConnectionManager.call_tool called once on the listed namespace, up to
\* its suspension point: a call routed to a session is sent and awaited, any
\* other call returns None at once
CallToolCall ==
    /\ UNCHANGED <<schemaVars, toolVars>>
    /\ cm_pc = "listed"
    /\ \E tool_name \in RequestedNames :
         LET route == Route(tool_map, sessions, tool_name)
         IN IF route.to = "session"
            THEN /\ sessionCalls' = Append(sessionCalls,
                        [server |-> route.server, tool |-> tool_name,
                         arguments |-> EmptyDict])
                 /\ cm_pc' = "calling"
                 /\ UNCHANGED observation
            ELSE /\ observation' = NoneVal
                 /\ cm_pc' = "called"
                 /\ UNCHANGED sessionCalls
    /\ UNCHANGED <<stdio_server_map, sse_server_map, init_queue, init_step,
                   exit_stack, session_keys, acquired, closeLog, close_pending,
                   close_calls, cm_error, declared, list_asked, consolidated,
                   chatRest, tool_map, sessions>>

\* the await of session.call_tool completes: call_tool returns the text of
\* the result, or the exception of the session leaves it
CallToolReturn ==
    /\ UNCHANGED <<schemaVars, toolVars>>
    /\ cm_pc = "calling"
    /\ \/ \E t \in ProviderTexts :
            /\ observation' = Str(t)
            /\ cm_pc' = "called"
            /\ UNCHANGED cm_error
       \/ /\ cm_error' = "McpError"
          /\ cm_pc' = "call_failed"
          /\ UNCHANGED observation
    /\ UNCHANGED <<stdio_server_map, sse_server_map, init_queue, init_step,
                   exit_stack, session_keys, acquired, closeLog, close_pending,
                   close_calls, declared, list_asked, consolidated, chatRest,
                   tool_map, sessions, sessionCalls>>

\* ConnectionManager.close is called: aclose starts to unwind the stack
CloseCall ==
    /\ UNCHANGED <<schemaVars, toolVars>>
    /\ cm_pc \in {"ready", "listed", "closed"}
    /\ close_calls < MaxCloseCalls
    /\ cm_pc' = "closing"
    /\ close_calls' = close_calls + 1
    /\ close_pending' = ""
    /\ cm_error' = ""
    /\ UNCHANGED <<stdio_server_map, sse_server_map, init_queue, init_step,
                   exit_stack, session_keys, acquired, closeLog, declared, list_asked,
                   consolidated, chatRest, tool_map, sessions, observation,
                   sessionCalls>>

\* CloseStep that gives up at the first exit callback that raises
CloseStep_StopOnFailure ==
    /\ UNCHANGED <<schemaVars, toolVars>>
    /\ cm_pc = "closing"
    /\ exit_stack # <<>>
    /\ exit_stack' = SubSeq(exit_stack, 1, Len(exit_stack) - 1)
    /\ \/ /\ closeLog' = Append(closeLog,
                 [resource |-> exit_stack[Len(exit_stack)], failed |-> FALSE])
          /\ UNCHANGED <<close_pending, cm_pc, cm_error>>
       \/ /\ closeLog' = Append(closeLog,
                 [resource |-> exit_stack[Len(exit_stack)], failed |-> TRUE])
          /\ close_pending' = "CloseError"
          /\ cm_error' = "CloseError"
          /\ cm_pc' = "closed"
    /\ UNCHANGED <<stdio_server_map, sse_server_map, init_queue, init_step,
                   session_keys, acquired, close_calls, declared, list_asked, consolidated,
                   chatRest, tool_map, sessions, observation, sessionCalls>>

\* CloseStep that runs the exit callbacks first in, first out
CloseStep_Fifo ==
    /\ UNCHANGED <<schemaVars, toolVars>>
    /\ cm_pc = "closing"
    /\ exit_stack # <<>>
    /\ exit_stack' = Tail(exit_stack)
    /\ \/ /\ closeLog' = Append(closeLog,
                 [resource |-> Head(exit_stack), failed |-> FALSE])
          /\ UNCHANGED close_pending
       \/ /\ closeLog' = Append(closeLog,
                 [resource |-> Head(exit_stack), failed |-> TRUE])
          /\ close_pending' = "CloseError"
    /\ UNCHANGED <<cm_pc, cm_error, stdio_server_map, sse_server_map,
                   init_queue, init_step, session_keys, acquired, close_calls,
                   declared, list_asked, consolidated, chatRest, tool_map, sessions,
                   observation, sessionCalls>>

\* aclose pops the last registered exit callback and awaits it; when the
\* callback raises, the exception is kept and the unwinding goes on
CloseStep ==
    /\ UNCHANGED <<schemaVars, toolVars>>
    /\ cm_pc = "closing"
    /\ exit_stack # <<>>
    /\ exit_stack' = SubSeq(exit_stack, 1, Len(exit_stack) - 1)
    /\ \/ /\ closeLog' = Append(closeLog,
                 [resource |-> exit_stack[Len(exit_stack)], failed |-> FALSE])
          /\ UNCHANGED close_pending
       \/ /\ closeLog' = Append(closeLog,
                 [resource |-> exit_stack[Len(exit_stack)], failed |-> TRUE])
          /\ close_pending' = "CloseError"
    /\ UNCHANGED <<cm_pc, cm_error, stdio_server_map, sse_server_map,
                   init_queue, init_step, session_keys, acquired, close_calls,
                   declared, list_asked, consolidated, chatRest, tool_map, sessions,
                   observation, sessionCalls>>

\* the stack is empty: aclose returns, or raises the exception it kept
CloseReturn ==
    /\ UNCHANGED <<schemaVars, toolVars>>
    /\ cm_pc = "closing"
    /\ exit_stack = <<>>
    /\ cm_pc' = "closed"
    /\ cm_error' = close_pending
    /\ UNCHANGED <<stdio_server_map, sse_server_map, init_queue, init_step,
                   exit_stack, session_keys, acquired, closeLog, close_pending,
                   close_calls, declared, list_asked, consolidated, chatRest, tool_map,
                   sessions, observation, sessionCalls>>

NextConn ==
    \/ OpenTransport
    \/ OpenSession
    \/ Handshake
    \/ InitializeReturn
    \/ ListToolsCall
    \/ ListToolsAnswer
    \/ CloseCall
    \/ CloseStep
    \/ CloseReturn

\* the life of one ConnectionManager: initialize, list_tools, close
SpecConn == InitConn /\ [][NextConn]_vars

(* ------------------------ claims on the registry ----------------------- *)

\* the resources whose exit callback aclose has run, in order
ClosedResources == [i \in DOMAIN closeLog |-> closeLog[i].resource]

\* a sequence back to front
Reverse(seq) == [i \in DOMAIN seq |-> seq[Len(seq) + 1 - i]]

\* C11: when a provider fails to open or to complete its handshake,
\* initialize raises and, by the time the failure reaches the caller, every
\* transport and session opened earlier in that initialize has been closed.
C11_FailedInitializeClosesOpened ==
    cm_pc = "init_failed" =>
        /\ cm_error # ""
        /\ exit_stack = <<>>
        /\ Range(ClosedResources) = Range(acquired)

\* C12: initialize acquires, provider by provider (stdio map order, then SSE
\* map order), the transport and then the session; close runs the exit of
\* each acquired resource exactly once, in the reverse of that order, and a
\* further close runs none again.
C12_CloseReversesAcquisition ==
    /\ cm_pc \in {"ready", "listed"} =>
          acquired = AcquisitionOrder(ProvidersOf(stdio_server_map, sse_server_map))
    /\ cm_pc \in {"closing", "closed"} =>
          /\ Len(closeLog) <= Len(acquired)
          /\ ClosedResources = SubSeq(Reverse(acquired), 1, Len(closeLog))
          /\ \A i, j \in DOMAIN closeLog :
                i # j => ClosedResources[i] # ClosedResources[j]
    /\ cm_pc = "closed" => ClosedResources = Reverse(acquired)

\* C12 witness: close was called twice on a manager that had opened three
\* providers, stdio and SSE; six exits ran.
C12_Witness ==
    /\ cm_pc = "closed"
    /\ close_calls = 2
    /\ sse_server_map # <<>>
    /\ Len(stdio_server_map) = 2
    /\ Len(closeLog) = 6

\* C13: an exit that raises during close does not stop the teardown: while
\* exits remain nothing has been raised, and when close ends every acquired
\* resource has had its exit run and the failure is raised then.
C13_TeardownSurvivesFailure ==
    /\ cm_pc = "closing" => cm_error = ""
    /\ cm_pc = "closed" =>
          /\ exit_stack = <<>>
          /\ Range(ClosedResources) = Range(acquired)
          /\ close_calls = 1 =>
                (cm_error = "CloseError"
                    <=> \E i \in DOMAIN closeLog : closeLog[i].failed)

\* C13 witness: the first exit run by close (the last session opened) raised,
\* the exits of the three resources acquired before it ran all the same, and
\* close raised at the end.
C13_Witness ==
    /\ cm_pc = "closed"
    /\ close_calls = 1
    /\ Len(closeLog) >= 4
    /\ closeLog[1].failed
    /\ \A i \in 2..Len(closeLog) : ~closeLog[i].failed
    /\ cm_error = "CloseError"

\* C16: between a successful list_tools and close, every tool name of the
\* tool map maps to a server name that is a key of the sessions table.
C16_ToolMapOwnersHaveSessions ==
    cm_pc = "listed" =>
        \A n \in DOMAIN tool_map :
            /\ tool_map[n] \in sessions
            /\ tool_map[n] \in Range(session_keys)

\* C16 witness: list_tools returned a map over the tools of a stdio and an
\* SSE provider.
C16_Witness ==
    /\ cm_pc = "listed"
    /\ sse_server_map = <<"S1">>
    /\ Len(stdio_server_map) = 2
    /\ DOMAIN tool_map = {"tool_P1", "tool_P2", "tool_S1", "search"}

(* ------------------- list_tools over any declarations ------------------ *)

\* the tool names providers may declare
ToolUniverse == {"toolA", "toolB", "toolC"}

\* the tool lists a provider may return: distinct names, at most MaxDecl
ToolLists ==
    {l \in UNION {[1..n -> ToolUniverse] : n \in 0..MaxDecl} :
        \A i, j \in DOMAIN l : i # j => l[i] # l[j]}

\* a manager whose initialize succeeded on two stdio providers and one SSE
\* provider, each with any tool list
InitTools ==
    /\ SchemaIdle
    /\ ToolsIdle
    /\ list_asked = 0
    /\ cm_pc = "ready"
    /\ stdio_server_map = ServerNames
    /\ sse_server_map = <<"S1">>
    /\ init_queue = <<>>
    /\ init_step = "transport"
    /\ exit_stack = AcquisitionOrder(ProvidersOf(stdio_server_map, sse_server_map))
    /\ acquired = exit_stack
    /\ session_keys = SessionKeysOf(ProvidersOf(stdio_server_map, sse_server_map))
    /\ sessions = Range(session_keys)
    /\ closeLog = <<>>
    /\ close_pending = ""
    /\ close_calls = 0
    /\ cm_error = ""
    /\ declared \in [Range(session_keys) -> ToolLists]
    /\ consolidated = <<>>
    /\ tool_map = [n \in {} |-> ""]
    /\ pc = "not_started"
    /\ max_turns = 0
    /\ turn = 0
    /\ input_messages = SeedMessages
    /\ chat_messages = <<>>
    /\ tool_calls = <<>>
    /\ idx = 0
    /\ observation = NoneVal
    /\ events = <<>>
    /\ modelLog = <<>>
    /\ sessionCalls = <<>>
    /\ error = ""

NextTools ==
    \/ ListToolsCall
    \/ ListToolsAnswer
    \/ CallToolCall
    \/ CallToolReturn

\* list_tools, then one call_tool, on an initialized manager
SpecTools == InitTools /\ [][NextTools]_vars

\* list_tools has returned its result
Listed == cm_pc \in {"listed", "calling", "called", "call_failed"}

\* the positions in the sessions table of the providers that declare a name
Declarers(n) ==
    {k \in DOMAIN session_keys : n \in NamesOf(declared[session_keys[k]])}

\* every name any provider declares
AllDeclared == UNION {NamesOf(declared[srv]) : srv \in Range(session_keys)}

\* no name is declared by two providers
DisjointDeclarations == \A n \in AllDeclared : Cardinality(Declarers(n)) = 1

\* the largest element of a non-empty set of numbers
Max(S) == CHOOSE x \in S : \A y \in S : y <= x

\* C14: when the providers' tool names are pairwise disjoint, the key set of
\* the tool map is the union of the declared names, each name maps to the
\* provider that declared it, and the definition list holds exactly those
\* tools, each once.
C14_DisjointUnion ==
    (Listed /\ DisjointDeclarations) =>
        /\ DOMAIN tool_map = AllDeclared
        /\ \A srv \in Range(session_keys) :
              \A n \in NamesOf(declared[srv]) : tool_map[n] = srv
        /\ Range(consolidated) = AllDeclared
        /\ Len(consolidated) = Cardinality(AllDeclared)

\* C14 witness: three providers with disjoint, non-empty tool lists, listed.
C14_Witness ==
    /\ cm_pc = "listed"
    /\ DisjointDeclarations
    /\ \A srv \in Range(session_keys) : declared[srv] # <<>>
    /\ Cardinality(DOMAIN tool_map) = 3

\* C15: a name declared by several providers maps to the one that comes last
\* in the iteration order of the sessions table, and a call_tool of that name
\* reaches the session of that provider only.
C15_LaterProviderWins ==
    Listed =>
        /\ \A n \in AllDeclared :
              tool_map[n] = session_keys[Max(Declarers(n))]
        /\ \A c \in DOMAIN sessionCalls :
              sessionCalls[c].server
                 = session_keys[Max(Declarers(sessionCalls[c].tool))]

\* C15 witness: toolA is declared by P1 and by S1, and the call of toolA
\* went to S1.
C15_Witness ==
    /\ cm_pc = "called"
    /\ "toolA" \in NamesOf(declared["P1"])
    /\ "toolA" \in NamesOf(declared["S1"])
    /\ sessionCalls = <<[server |-> "S1", tool |-> "toolA", arguments |-> EmptyDict]>>

(* --------------------- filter_input_schema, applied -------------------- *)

\* the keys a properties map may have
PropNames == {"a", "b", "c"}

\* a property: its type, with or without a default annotation
PropValues == {[type |-> "string"], [type |-> "integer", default |-> "5"]}

\* the properties maps explored: distinct keys, in any order
PropertyMaps ==
    {m \in UNION {[1..n -> [key : PropNames, value : PropValues]] : n \in 0..MaxProps} :
        \A i, j \in DOMAIN m : i # j => m[i].key # m[j].key}

\* the values of "required" explored: lists (with repeated and undeclared
\* names) and a value that is not a list
RequiredValues ==
    {PyList(l) : l \in UNION {[1..n -> PropNames \cup {"z"}] : n \in 0..MaxReq}}
       \cup {Str("a")}

\* the input schemas explored: each of properties, required and
\* additionalProperties present or absent
Schemas ==
    LET base == [type |-> "object"]
        withP == {base} \cup {DictSet(base, "properties", m) : m \in PropertyMaps}
        withR == withP \cup {DictSet(x, "required", r) : x \in withP, r \in RequiredValues}
    IN withR \cup {DictSet(x, "additionalProperties", b) : x \in withR, b \in BOOLEAN}

\* a tool's inputSchema before main filters it
InitSchema ==
    /\ schema_orig \in Schemas
    /\ schema_obj = schema_orig
    /\ schema_once = schema_orig
    /\ schema_calls = 0
    /\ RegistryListed(ServerNames, <<>>, DeclaredTools)
    /\ ToolsListed
    /\ tool_map = ListTools(ServerNames, DeclaredTools).tool_map
    /\ sessions = Range(ServerNames)
    /\ pc = "not_started"
    /\ max_turns = 0
    /\ turn = 0
    /\ input_messages = SeedMessages
    /\ chat_messages = <<>>
    /\ tool_calls = <<>>
    /\ idx = 0
    /\ observation = NoneVal
    /\ events = <<>>
    /\ modelLog = <<>>
    /\ sessionCalls = <<>>
    /\ error = ""

\* filter_input_schema(schema): changes the object in place and returns it
FilterCall ==
    /\ schema_calls < MaxFilterCalls
    /\ schema_obj' = FilterInputSchema(schema_obj)
    /\ schema_once' = IF schema_calls = 0 THEN FilterInputSchema(schema_obj)
                      ELSE schema_once
    /\ schema_calls' = schema_calls + 1
    /\ UNCHANGED <<schema_orig, chatVars, registryVars, toolVars>>

NextSchema == FilterCall

\* filter_input_schema applied again and again to one schema
SpecSchema == InitSchema /\ [][NextSchema]_vars

(* --------------------- claims on filter_input_schema ------------------- *)

\* filter_input_schema has been applied to the schema at least once
Filtered == schema_calls >= 1

\* the schema had a properties map when it was passed in
HadProperties == "properties" \in DOMAIN schema_orig

\* the schema had a required list when it was passed in
HadRequiredList ==
    "required" \in DOMAIN schema_orig /\ IsList(schema_orig["required"])

\* C17: applying filter_input_schema to its own result changes nothing: the
\* schema after the second (and any later) call equals the schema after the
\* first, the order and multiplicity of required included.
C17_Idempotent == schema_calls >= 2 => schema_obj = schema_once

\* C17 witness: a schema with two properties, one with a default, and a
\* required list that names one of them twice and lacks the other, filtered
\* twice.
C17_Witness ==
    /\ schema_calls = 2
    /\ HadProperties
    /\ Len(schema_orig["properties"]) = 2
    /\ \E i \in 1..2 : "default" \in DOMAIN schema_orig["properties"][i].value
    /\ HadRequiredList
    /\ schema_orig["required"].items = <<"a", "a">>
    /\ schema_once["required"].items = <<"a", "a", "b">>
    /\ "additionalProperties" \notin DOMAIN schema_orig

\* C18: for a schema with a properties map the returned required is a list
\* that contains every property key; without a required list before, it is
\* the property keys in declaration order; with one, the old entries stay
\* where they were and the keys that were missing follow, once each, in
\* declaration order.
C18_RequiredCoversProperties ==
    (Filtered /\ HadProperties) =>
        LET keys == PropertyKeys(schema_orig["properties"])
            out == schema_once["required"]
        IN /\ IsList(out)
           /\ \A i \in DOMAIN keys : \E j \in DOMAIN out.items : out.items[j] = keys[i]
           /\ ~HadRequiredList => out.items = keys
           /\ HadRequiredList =>
                 LET old == schema_orig["required"].items
                     Missing(k) == \A j \in DOMAIN old : old[j] # k
                 IN out.items = old \o SelectSeq(keys, Missing)

\* C18 witness: properties {a, b} with required [a] gave required [a, b].
C18_Witness ==
    /\ Filtered
    /\ HadProperties
    /\ PropertyKeys(schema_orig["properties"]) = <<"a", "b">>
    /\ HadRequiredList
    /\ schema_orig["required"].items = <<"a">>
    /\ schema_once["required"].items = <<"a", "b">>

\* C19: after filter_input_schema no property of the properties map has a
\* default key, every other key of every property is as it was, the
\* properties are the same and in the same order, and the parameters of the
\* tool definition built from the schema carry no default.
C19_DefaultsRemoved ==
    (Filtered /\ HadProperties) =>
        LET before == schema_orig["properties"]
            after == schema_once["properties"]
            shown == ToolDefinition("tool", schema_orig).function.parameters["properties"]
        IN /\ PropertyKeys(after) = PropertyKeys(before)
           /\ \A i \in DOMAIN before :
                 /\ DOMAIN after[i].value = (DOMAIN before[i].value) \ {"default"}
                 /\ \A k \in DOMAIN after[i].value : after[i].value[k] = before[i].value[k]
           /\ \A i \in DOMAIN shown : "default" \notin DOMAIN shown[i].value

\* C19 witness: a property that had a default and a type keeps only the type.
C19_Witness ==
    /\ Filtered
    /\ HadProperties
    /\ Len(schema_orig["properties"]) = 2
    /\ schema_orig["properties"][1].value = [type |-> "integer", default |-> "5"]
    /\ schema_once["properties"][1].value = [type |-> "integer"]
    /\ schema_once["properties"][2].value = [type |-> "string"]

\* C20 (as stated): every schema that declares no additionalProperties flag
\* gets additionalProperties = false, and a declared flag is left as it is.
C20_EverySchemaClosed ==
    Filtered =>
        IF "additionalProperties" \in DOMAIN schema_orig
        THEN schema_once["additionalProperties"] = schema_orig["additionalProperties"]
        ELSE /\ "additionalProperties" \in DOMAIN schema_once
             /\ schema_once["additionalProperties"] = FALSE

\* C20 (amended): a schema that has a properties map and declares no
\* additionalProperties flag gets additionalProperties = false; a declared
\* flag is left as it is; a schema without a properties map gets no flag.
C20_SchemaWithPropertiesClosed ==
    Filtered =>
        IF "additionalProperties" \in DOMAIN schema_orig
        THEN /\ "additionalProperties" \in DOMAIN schema_once
             /\ schema_once["additionalProperties"] = schema_orig["additionalProperties"]
        ELSE IF HadProperties
             THEN /\ "additionalProperties" \in DOMAIN schema_once
                  /\ schema_once["additionalProperties"] = FALSE
             ELSE "additionalProperties" \notin DOMAIN schema_once

\* C20 witness: a schema with a property and no flag was filtered and now has
\* additionalProperties = false.
C20_Witness ==
    /\ Filtered
    /\ HadProperties
    /\ schema_orig["properties"] # <<>>
    /\ "additionalProperties" \notin DOMAIN schema_orig
    /\ schema_once["additionalProperties"] = FALSE

\* C21: a schema without a properties map comes back from
\* filter_input_schema as it went in: same keys, same values, no required
\* list and no additionalProperties flag added.
C21_NoPropertiesUnchanged ==
    (Filtered /\ ~HadProperties) =>
        /\ schema_once = schema_orig
        /\ schema_obj = schema_orig
        /\ DOMAIN schema_once = DOMAIN schema_orig

\* C21 witness: a schema with neither properties, required nor
\* additionalProperties was filtered.
C21_Witness ==
    /\ Filtered
    /\ DOMAIN schema_orig = {"type"}
    /\ DOMAIN schema_once = {"type"}

\* the number of tools the providers before position k of the sessions table
\* declare
RECURSIVE DeclaredBefore(_)
DeclaredBefore(k) ==
    IF k <= 1 THEN 0
    ELSE DeclaredBefore(k - 1) + Len(declared[session_keys[k - 1]])

\* C27: list_tools returns one definition per tool per provider, in provider
\* order and then in the order the provider declared them, without
\* deduplication: the list is as long as the providers' tool counts summed,
\* and the keys of the tool map are the names that occur in the list.
C27_OneDefinitionPerDeclaration ==
    Listed =>
        /\ Len(consolidated) = DeclaredBefore(Len(session_keys) + 1)
        /\ \A k \in DOMAIN session_keys :
              \A i \in DOMAIN declared[session_keys[k]] :
                 consolidated[DeclaredBefore(k) + i]
                    = declared[session_keys[k]][i]
        /\ DOMAIN tool_map = NamesOf(consolidated)

\* C27 witness: P1 and S1 both declare toolA; the list holds toolA twice and
\* the map holds it once, owned by S1.
C27_Witness ==
    /\ cm_pc = "listed"
    /\ declared["P1"] = <<"toolA", "toolB">>
    /\ declared["P2"] = <<"toolC">>
    /\ declared["S1"] = <<"toolA">>
    /\ consolidated = <<"toolA", "toolB", "toolC", "toolA">>
    /\ DOMAIN tool_map = {"toolA", "toolB", "toolC"}
    /\ tool_map["toolA"] = "S1"

\* the caller's list holds what the caller put into it
CallerListKept == input_messages = SeedMessages

\* a step leaves the caller's list alone and at most appends to the
\* conversation of the loop
OnlyAppends ==
    /\ input_messages' = input_messages
    /\ Len(chat_messages') >= Len(chat_messages)
    /\ SubSeq(chat_messages', 1, Len(chat_messages)) = chat_messages

\* C26: chat never changes the caller's input_messages list (same length and
\* same elements at every point of any run), and the conversation of the loop
\* only grows by appends: every step keeps what was there as a prefix.
C26_CallerListUntouched == []CallerListKept /\ [][OnlyAppends]_vars

\* C26 witness: a run ended after a tool turn; the conversation of the loop
\* is longer than the caller's list, which is as it was.
C26_Witness ==
    /\ pc = "done"
    /\ sessionCalls # <<>>
    /\ Len(chat_messages) > Len(input_messages)
    /\ SubSeq(chat_messages, 1, Len(input_messages)) = input_messages
    /\ input_messages = SeedMessages

(* ------------- chat on a tool map and a manager of its caller ---------- *)

\* the tools a provider declares; a provider outside DeclaredTools has none
DeclaredBy(srv) ==
    IF srv \in DOMAIN DeclaredTools THEN DeclaredTools[srv] ELSE <<>>

\* chat receives tool_map and connection_manager as two arguments: the
\* manager is initialized and listed on any stdio server map, the tool map is
\* the one list_tools returned on any stdio server map
InitRoute ==
    /\ \E stdio \in StdioMaps :
          /\ RegistryListed(stdio, <<>>, [srv \in Range(stdio) |-> DeclaredBy(srv)])
          /\ sessions = Range(stdio)
    /\ ToolsBuilt
    /\ \E listed \in StdioMaps :
          tool_map = ListTools(listed, [srv \in Range(listed) |-> DeclaredBy(srv)]).tool_map
    /\ SchemaIdle
    /\ pc = "loop"
    /\ max_turns = 1
    /\ turn = 0
    /\ input_messages = SeedMessages
    /\ chat_messages = input_messages
    /\ tool_calls = <<>>
    /\ idx = 0
    /\ observation = NoneVal
    /\ events = <<>>
    /\ modelLog = <<>>
    /\ sessionCalls = <<>>
    /\ error = ""

SpecRoute == InitRoute /\ [][Next]_vars

\* call_tool has just returned to chat from a call whose tool map entry names
\* a provider without a session in the registry
ReturnedWithoutSession ==
    /\ pc = "append"
    /\ Route(tool_map, sessions, tool_calls[idx].name).to = "no_session"

\* C23: when the tool map names a provider that has no open session in the
\* registry, call_tool calls no session and what it returns to its caller is
\* an error, not the empty result None.
C23_NoSessionIsError ==
    /\ \A k \in DOMAIN sessionCalls : sessionCalls[k].server \in sessions
    /\ ReturnedWithoutSession => observation # NoneVal

(* ----------------------- main and get_tools --------------------------- *)

\* main and get_tools on a fresh manager: initialize has not run yet
InitMain ==
    /\ SchemaIdle
    /\ ToolsIdle
    /\ list_asked = 0
    /\ cm_pc = "initializing"
    /\ stdio_server_map = ServerNames
    /\ sse_server_map = <<>>
    /\ init_queue = ProvidersOf(stdio_server_map, sse_server_map)
    /\ init_step = "transport"
    /\ exit_stack = <<>>
    /\ session_keys = <<>>
    /\ sessions = {}
    /\ acquired = <<>>
    /\ closeLog = <<>>
    /\ close_pending = ""
    /\ close_calls = 0
    /\ cm_error = ""
    /\ declared = [srv \in Range(stdio_server_map) |-> DeclaredBy(srv)]
    /\ consolidated = <<>>
    /\ tool_map = [n \in {} |-> ""]
    /\ pc = "not_started"
    /\ max_turns = DefaultMaxTurns
    /\ turn = 0
    /\ input_messages = SeedMessages
    /\ chat_messages = <<>>
    /\ tool_calls = <<>>
    /\ idx = 0
    /\ observation = NoneVal
    /\ events = <<>>
    /\ modelLog = <<>>
    /\ sessionCalls = <<>>
    /\ error = ""

\* MainStartChat entered before list_tools was awaited
MainStartChat_BeforeList ==
    /\ cm_pc = "ready"
    /\ pc = "not_started"
    /\ close_calls = 0
    /\ tools_json' = ToolsJson(consolidated, tool_schemas)
    /\ tool_schemas' = FilteredSchemas(tool_schemas)
    /\ pc' = "loop"
    /\ chat_messages' = input_messages
    /\ UNCHANGED <<max_turns, turn, input_messages, tool_map, sessions,
                   tool_calls, idx, observation, events, modelLog,
                   sessionCalls, error>>
    /\ UNCHANGED <<registryVars, schemaVars>>

\* main after list_tools returned: filter_input_schema is called on the
\* inputSchema of every tool object, in place, the tool definitions and the
\* messages are built and chat is entered; chat copies the messages
MainStartChat ==
    /\ cm_pc = "listed"
    /\ pc = "not_started"
    /\ close_calls = 0
    /\ tools_json' = ToolsJson(consolidated, tool_schemas)
    /\ tool_schemas' = FilteredSchemas(tool_schemas)
    /\ pc' = "loop"
    /\ chat_messages' = input_messages
    /\ UNCHANGED <<max_turns, turn, input_messages, tool_map, sessions,
                   tool_calls, idx, observation, events, modelLog,
                   sessionCalls, error>>
    /\ UNCHANGED <<registryVars, schemaVars>>

\* ModelCallFails caught inside chat and turned into a final answer
ModelCallFails_Swallowed ==
    /\ UNCHANGED nonChatVars
    /\ pc = "loop"
    /\ error' = "APIError"
    /\ events' = Append(events, [role |-> "assistant", kind |-> "final",
                                 content |-> "error"])
    /\ pc' = "answered"
    /\ UNCHANGED <<max_turns, turn, input_messages, chat_messages, tool_map,
                   sessions, tool_calls, idx, observation, modelLog,
                   sessionCalls>>

\* client.chat.completions.create raises, in the loop or after it: nothing
\* in chat or main catches the exception
ModelCallFails ==
    /\ UNCHANGED nonChatVars
    /\ pc = "loop"
    /\ error' = "APIError"
    /\ pc' = "raised"
    /\ UNCHANGED <<max_turns, turn, input_messages, chat_messages, tool_map,
                   sessions, tool_calls, idx, observation, events, modelLog,
                   sessionCalls>>

\* MainClose that does not wait for the end of the chat event sequence
MainClose_Early ==
    /\ pc # "not_started"
    /\ cm_pc = "listed"
    /\ close_calls = 0
    /\ CloseCall

\* main: connection_manager.close() after the async for over chat ended
MainClose ==
    /\ pc = "done"
    /\ cm_pc = "listed"
    /\ close_calls = 0
    /\ CloseCall

\* get_tools after list_tools returned: filter_input_schema is called on the
\* inputSchema of every tool object, in place, the tool definitions are built
\* and connection_manager.close() is called
GetToolsClose ==
    /\ pc = "not_started"
    /\ cm_pc = "listed"
    /\ close_calls = 0
    /\ tools_json' = ToolsJson(consolidated, tool_schemas)
    /\ tool_schemas' = FilteredSchemas(tool_schemas)
    /\ cm_pc' = "closing"
    /\ close_calls' = close_calls + 1
    /\ close_pending' = ""
    /\ cm_error' = ""
    /\ UNCHANGED <<stdio_server_map, sse_server_map, init_queue, init_step,
                   exit_stack, session_keys, acquired, closeLog, declared,
                   list_asked, consolidated>>
    /\ UNCHANGED <<chatVars, schemaVars>>

\* the responses explored in a run of main: any response in the first
\* MainTurns turns, afterwards an answer or a request for one call of toolA
MainModelCall ==
    /\ ModelCall
    /\ turn >= MainTurns =>
          \/ pc' = "answered"
          \/ /\ Len(tool_calls') = 1
             /\ tool_calls'[1].name = "toolA"
             /\ tool_calls'[1].arguments = "{}"

NextMain ==
    \/ OpenTransport
    \/ OpenSession
    \/ Handshake
    \/ InitializeReturn
    \/ ListToolsCall
    \/ ListToolsAnswer
    \/ MainStartChat
    \/ MainModelCall
    \/ ModelCallFails
    \/ FinalCall
    \/ ChatReturn
    \/ ToolCallBegin
    \/ ToolDispatch
    \/ ToolReturn
    \/ ToolAppend
    \/ MainClose
    \/ GetToolsClose
    \/ CloseStep
    \/ CloseReturn

\* one run of main, or of get_tools, from the construction of the manager
SpecMain == InitMain /\ [][NextMain]_vars

(* ------------------ claims on main and get_tools ----------------------- *)

\* chat has been entered
ChatStarted == pc # "not_started"

\* list_tools has returned the aggregate of every session's tool list
Aggregated ==
    /\ cm_pc \in {"listed", "closing", "closed"}
    /\ init_queue = <<>>
    /\ list_asked = Len(session_keys)
    /\ tool_map = ListTools(session_keys, declared).tool_map
    /\ consolidated = ListTools(session_keys, declared).tools
    /\ Len(tools_json) = Len(consolidated)

\* a step of the conversation leaves the namespace alone and asks no
\* provider for its tool list
NamespaceFixed ==
    ChatStarted =>
        /\ tool_map' = tool_map
        /\ consolidated' = consolidated
        /\ tools_json' = tools_json
        /\ tool_schemas' = tool_schemas
        /\ declared' = declared
        /\ list_asked' = list_asked

\* C22: within one run of main the tool lists of all sessions are fetched and
\* aggregated before the first model call, and the tool map and the tool
\* definitions stay the same on every model call and every routing decision:
\* no provider is asked for its tool list again.
C22_NamespaceFixedForTheRun ==
    /\ [](ChatStarted => Aggregated)
    /\ [][NamespaceFixed]_vars

\* C22 witness: main ended after two model calls and a tool call routed by
\* the tool map list_tools returned.
C22_Witness ==
    /\ pc = "done"
    /\ cm_pc = "closed"
    /\ Len(modelLog) = 2
    /\ sessionCalls # <<>>
    /\ DOMAIN tool_map = {"toolA", "toolB"}

\* a model call of this run has failed
ModelFailed == error = "APIError"

\* the state of a run whose model call failed: chat has raised and no final
\* answer was yielded
AbortedRun ==
    ModelFailed =>
        /\ pc = "raised"
        /\ \A i \in DOMAIN events : events[i].kind # "final"

\* after the failure no event is yielded, no tool is invoked, no model call
\* is made and the failure stays the outcome of the run
NothingAfterFailure ==
    ModelFailed =>
        /\ events' = events
        /\ sessionCalls' = sessionCalls
        /\ modelLog' = modelLog
        /\ chat_messages' = chat_messages
        /\ pc' = "raised"
        /\ error' = "APIError"

\* C24: when a model call fails, at any turn, the run aborts there: no final
\* event and no further tool_call or tool_result event, no further tool
\* invoked, no model call retried, and the failure is the one terminal outcome
\* the caller of the run gets.
C24_ModelFailureAborts == []AbortedRun /\ [][NothingAfterFailure]_vars

\* C24 witness: the model call after a complete tool turn failed.
C24_Witness ==
    /\ ModelFailed
    /\ pc = "raised"
    /\ Len(modelLog) = 1
    /\ sessionCalls # <<>>
    /\ events # <<>>

\* a step that sends call_tool to a session does so after the handshake of
\* that session and before close was called
CallInsideWindow ==
    sessionCalls' # sessionCalls =>
        /\ cm_pc = "listed"
        /\ close_calls = 0
        /\ closeLog = <<>>
        /\ sessionCalls'[Len(sessionCalls')].server \in sessions

\* a step in which list_tools asks a session does so after initialize
\* returned, with the handshake of that session done, and before close was
\* called
ListInsideWindow ==
    list_asked' # list_asked =>
        /\ init_queue = <<>>
        /\ cm_pc \in {"ready", "listing"}
        /\ session_keys[list_asked'] \in sessions
        /\ close_calls = 0
        /\ closeLog = <<>>

\* a step that calls close: in main the chat event sequence is exhausted, in
\* get_tools list_tools has returned
CloseAfterUse ==
    close_calls' # close_calls =>
        /\ cm_pc = "listed"
        /\ pc \in {"done", "not_started"}

\* C25: a session is used only inside its lifetime window: list_tools and
\* call_tool reach a session after its initialize handshake completed and
\* before close has started; main calls close after the chat event sequence
\* is exhausted, get_tools after list_tools has returned.
C25_UseInsideLifetime ==
    [][CallInsideWindow /\ ListInsideWindow /\ CloseAfterUse]_vars

\* C25 witness: main called a tool on a session, chat ended, and close then
\* unwound every resource.
C25_Witness ==
    /\ pc = "done"
    /\ sessionCalls # <<>>
    /\ cm_pc = "closed"
    /\ Len(closeLog) = Len(acquired)
    /\ acquired # <<>>

====
